---------------------------- MODULE Spec2Model ----------------------------
(***************************************************************************)
(* Attack-tree normalisation, layout and diagram export of the threat-     *)
(* shield front end:                                                       *)
(*   pages/AttackTree.tsx  fetchData (envelope normaliser) and             *)
(*                         processAttackTreeData (layout + commit)         *)
(*   pages/Dread.tsx       AttackTreeVisualization.processAttackTreeData   *)
(*                         (layout + commit of the report page) and        *)
(*                         generateSimplifiedMermaidDiagram (export)       *)
(*   pages/Analytics.tsx   getAttackTreeData                               *)
(*                                                                         *)
(* JSON objects are records; an absent key is an absent record field, so   *)
(* `o?.k` is "k \in DOMAIN o".  Coordinates are kept in half pixels (every *)
(* x and y of the source is a multiple of 0.5), so position.x = 2 * x.     *)
(***************************************************************************)
EXTENDS Integers, Sequences, FiniteSets, TLC

VARIABLES
    route,           \* which page component is mounted
    pc,              \* position of the mounted page's async effect
    data,            \* the JSON value last handed to the mounted page's normaliser
    attackTreeData,  \* AttackTree page: useState attackTreeData
    nodes,           \* AttackTree page: useState nodes
    edges,           \* AttackTree page: useState edges
    loading,         \* AttackTree page: useState loading
    error,           \* AttackTree page: useState error
    unhandled,       \* an exception left fetchData / getAttackTreeData
    reportData,      \* Report page: reportData.attack_tree.data
    vizNodes,        \* Report page: AttackTreeVisualization useState nodes
    vizEdges,        \* Report page: AttackTreeVisualization useState edges
    mermaid,         \* Report page: text returned by the last export
    lastExport,      \* Report page: mermaidContent and processedNodeIds as the
                     \* last export call left them
    downloadError,   \* Report page: useState downloadError
    analytics,       \* Analytics page: value returned by getAttackTreeData
    assessment_id,   \* AttackTree page: useParams().assessment_id
    calls            \* AttackTree page: the calls of fetchData suspended at an await

vars == <<route, pc, data, attackTreeData, nodes, edges, loading, error,
          unhandled, reportData, vizNodes, vizEdges, mermaid, lastExport,
          downloadError, analytics, assessment_id, calls>>

(***************************************************************************)
(* Bounds of the input node graphs.                                        *)
(***************************************************************************)
MaxNodes == 4

(***************************************************************************)
(* JavaScript values.                                                      *)
(***************************************************************************)
Null == [jsNull |-> TRUE]              \* null, where an object is expected
NoObject == [jsUndefined |-> TRUE]     \* undefined, where an object is expected
Undefined == "undefined"               \* undefined, where a string is expected
NoError == "null"                      \* useState<string | null>(null)
EmptyObject == [k \in {} |-> TRUE]     \* {}

\* o.k, undefined when the key is absent
Field(o, k) == IF k \in DOMAIN o THEN o[k] ELSE Undefined

\* a || b on strings
OrElse(a, b) == IF a = Undefined \/ a = "" THEN b ELSE a

RECURSIVE Has(_, _)
\* o?.k1?.k2...: every key of the path is present
Has(o, path) ==
    IF path = <<>> THEN TRUE
    ELSE Head(path) \in DOMAIN o /\ Has(o[Head(path)], Tail(path))

RECURSIVE At(_, _)
At(o, path) == IF path = <<>> THEN o ELSE At(o[Head(path)], Tail(path))

Max(a, b) == IF a >= b THEN a ELSE b

RECURSIVE SortedSeq(_)
SortedSeq(S) ==
    IF S = {} THEN <<>>
    ELSE LET m == CHOOSE m \in S : \A k \in S : m <= k
         IN <<m>> \o SortedSeq(S \ {m})

(***************************************************************************)
(* Node records (interface AttackTreeNode): id, type?, label, children?.   *)
(* An input graph of n records is drawn as a forest in preorder numbering  *)
(* (parent[i] = 0 for an element of the top-level list), with an id and a  *)
(* type per record.                                                        *)
(***************************************************************************)
OddTypes == {"goal", "vulnerability", "bogus", Undefined}

RECURSIVE AncestorsOrSelf(_, _)
AncestorsOrSelf(parent, i) ==
    IF i = 0 THEN {} ELSE {i} \cup AncestorsOrSelf(parent, parent[i])

\* every ordered forest of n records, numbered in preorder
Shapes(n) ==
    {parent \in [1..n -> 0..(n - 1)] :
        \A i \in 1..n :
            /\ parent[i] < i
            /\ i > 1 => parent[i] \in {0} \cup AncestorsOrSelf(parent, i - 1)}

\* ids: all distinct, or one record repeating the id of an earlier one
IdName(i) == <<"n1", "n2", "n3", "n4", "n5", "n6">>[i]
IdMaps(n) ==
    {[i \in 1..n |-> IdName(i)]} \cup
    {[i \in 1..n |-> IF i = j THEN IdName(k) ELSE IdName(i)] :
        <<k, j>> \in {<<k, j>> \in (1..n) \X (1..n) : k < j}}

\* types: every record an attack, but for at most one record
TypeMaps(n) ==
    {[i \in 1..n |-> "attack"]} \cup
    {[i \in 1..n |-> IF i = j THEN t ELSE "attack"] :
        <<j, t>> \in (1..n) \X OddTypes}

\* labels: fixed per record number; some carry double quotes
LabelOf(i) ==
    <<  <<"G">>, <<"a", "\"", "b">>, <<"\"", "\"">>, <<"c">>, <<"\"">>, <<"d">>  >>[i]

ChildrenOf(parent, n, k) == SortedSeq({i \in 1..n : parent[i] = k})

RECURSIVE BuildNode(_, _, _, _, _)
\* the record of node i; a leaf has children absent (odd i) or [] (even i)
BuildNode(parent, ids, types, n, i) ==
    LET kids == ChildrenOf(parent, n, i)
        base == [id |-> ids[i], label |-> LabelOf(i)]
        typed == IF types[i] = Undefined THEN base
                 ELSE base @@ [type |-> types[i]]
    IN IF kids = <<>> /\ i % 2 = 1 THEN typed
       ELSE typed @@
            [children |->
                [c \in 1..Len(kids) |-> BuildNode(parent, ids, types, n, kids[c])]]

BuildList(parent, ids, types, n) ==
    LET tops == ChildrenOf(parent, n, 0)
    IN [c \in 1..Len(tops) |-> BuildNode(parent, ids, types, n, tops[c])]

\* ids and types together: a repeated id in a list of attacks or under a
\* goal at the head of the list, or distinct ids with the types of TypeMaps
IdTypeMaps(n) ==
    (IdMaps(n) \X {[i \in 1..n |-> "attack"],
                   [i \in 1..n |-> IF i = 1 THEN "goal" ELSE "attack"]})
    \cup ({[i \in 1..n |-> IdName(i)]} \X TypeMaps(n))

\* the node lists a stored attack tree can hold (the empty list included)
NodeLists ==
    {<<>>} \cup
    UNION {{BuildList(parent, maps[1], maps[2], n) :
                <<parent, maps>> \in Shapes(n) \X IdTypeMaps(n)} :
           n \in 1..MaxNodes}

(***************************************************************************)
(* Layout: processAttackTreeData of pages/AttackTree.tsx ("AttackTree")    *)
(* and of AttackTreeVisualization in pages/Dread.tsx ("Report").           *)
(* Multipliers and sibling factors are in tenths (1.8 is 18).              *)
(***************************************************************************)
baseWidth == 250
level1XGapMultiplier == 18
level1SiblingFactor == 5
level2XGapMultiplier == 10
level2SiblingFactor == 6
deepXGapMultiplier == 12
deepSiblingFactor == 4
verticalBase == 160
verticalIncrement == 25
horizontalOffset == 15

\* const config = {...} / const spacingConfig = {...}
Config ==
    [baseWidth |-> baseWidth,
     level1 |-> [xGapMultiplier |-> level1XGapMultiplier,
                 siblingFactor |-> level1SiblingFactor],
     level2 |-> [xGapMultiplier |-> level2XGapMultiplier,
                 siblingFactor |-> level2SiblingFactor],
     verticalBase |-> verticalBase,
     verticalIncrement |-> verticalIncrement,
     horizontalOffset |-> horizontalOffset]

\* Gap2 without Math.max(1, ...)
Gap2NoFloor(width, multiplier, factor, totalSiblings) ==
    (2 * width * multiplier * totalSiblings * factor) \div 100

\* baseWidth * multiplier * Math.max(1, totalSiblings * siblingFactor), doubled.
\* Exact arithmetic: the level-1 gaps (450 * max(1, n / 2)) are exact in IEEE
\* doubles too; at level >= 2 the source's doubles can differ from this value
\* in the last bit (3 * 0.6 is 1.7999999999999998).
Gap2(width, multiplier, factor, totalSiblings) ==
    (2 * width * multiplier * Max(10, totalSiblings * factor)) \div 100

\* let xGap (half pixels)
xGap2(impl, cfg, level, totalSiblings) ==
    IF level = 0 THEN 0
    ELSE IF level = 1
    THEN Gap2(cfg.baseWidth, cfg.level1.xGapMultiplier, cfg.level1.siblingFactor,
              totalSiblings)
    ELSE IF impl = "AttackTree" \/ level = 2
    THEN Gap2(cfg.baseWidth, cfg.level2.xGapMultiplier, cfg.level2.siblingFactor,
              totalSiblings)
    ELSE Gap2(cfg.baseWidth, deepXGapMultiplier, deepSiblingFactor, totalSiblings)

\* the lateral offset per unit of offsetMultiplier: config.horizontalOffset on
\* the AttackTree page, the literal 15 on the report page
LateralOffset(impl, cfg) ==
    IF impl = "AttackTree" THEN cfg.horizontalOffset ELSE horizontalOffset

\* NodeX2 with the level-1 row starting at -totalWidth instead of -totalWidth / 2
NodeX2NotCentred(impl, cfg, level, position, totalSiblings, parentX2) ==
    LET gap == xGap2(impl, cfg, level, totalSiblings)
    IN IF level = 0 THEN 0
       ELSE IF level = 1
       THEN LET totalWidth == gap * (totalSiblings - 1)
                startX == -totalWidth
            IN startX + position * gap
       ELSE LET childOffset == ((totalSiblings - 1) * gap) \div 2
                offsetMultiplier2 == 2 * position - (totalSiblings - 1)
            IN parentX2 - childOffset + position * gap
               + offsetMultiplier2 * LateralOffset(impl, cfg)

\* NodeX2 with the children of a parent starting at the parent's x
NodeX2LeftAligned(impl, cfg, level, position, totalSiblings, parentX2) ==
    LET gap == xGap2(impl, cfg, level, totalSiblings)
    IN IF level = 0 THEN 0
       ELSE IF level = 1
       THEN LET totalWidth == gap * (totalSiblings - 1)
                startX == -(totalWidth \div 2)
            IN startX + position * gap
       ELSE parentX2 + position * gap
            + (2 * position - (totalSiblings - 1)) * LateralOffset(impl, cfg)

\* let x (half pixels)
NodeX2(impl, cfg, level, position, totalSiblings, parentX2) ==
    LET gap == xGap2(impl, cfg, level, totalSiblings)
    IN IF level = 0 THEN 0
       ELSE IF level = 1
       THEN LET totalWidth == gap * (totalSiblings - 1)
                startX == -(totalWidth \div 2)
            IN startX + position * gap
       ELSE LET childOffset == ((totalSiblings - 1) * gap) \div 2
                offsetMultiplier2 == 2 * position - (totalSiblings - 1)
            IN parentX2 - childOffset + position * gap
               + offsetMultiplier2 * LateralOffset(impl, cfg)

\* NodeY2 with y = yGap instead of y = level * yGap
NodeY2NotScaled(cfg, level) ==
    2 * (cfg.verticalBase + level * cfg.verticalIncrement)

\* NodeY2 with yGap = config.verticalBase at every level
NodeY2Linear(cfg, level) == 2 * level * cfg.verticalBase

\* let y = level * yGap (half pixels)
NodeY2(cfg, level) ==
    2 * level * (cfg.verticalBase + level * cfg.verticalIncrement)

\* HasChildren with the test node.children.length > 1
HasChildrenOffByOne(node) == "children" \in DOMAIN node /\ Len(node.children) > 1

\* node.children && node.children.length > 0
HasChildren(node) == "children" \in DOMAIN node /\ Len(node.children) > 0

\* node.type || 'goal'
TypeOrGoal(node) ==
    IF "type" \in DOMAIN node /\ node.type # "" THEN node.type ELSE "goal"

FlowNode(node, x2, y2) ==
    [id |-> node.id, type |-> TypeOrGoal(node),
     position |-> [x |-> x2, y |-> y2], data |-> [label |-> node.label]]

RECURSIVE createNodesEachButLast(_, _, _, _, _, _)
\* a forEach that stops before the last child
createNodesEachButLast(impl, cfg, children, c, level, parentX2) ==
    IF c >= Len(children) THEN <<>>
    ELSE <<[id |-> children[c].id, type |-> "goal",
            position |-> [x |-> 0, y |-> 0], data |-> [label |-> children[c].label]]>>
         \o createNodesEachButLast(impl, cfg, children, c + 1, level, parentX2)

RECURSIVE createNodes(_, _, _, _, _, _, _)
RECURSIVE createNodesEach(_, _, _, _, _, _)
RECURSIVE createNodesEachReversed(_, _, _, _, _, _)
\* a forEach that visits the last child first
createNodesEachReversed(impl, cfg, children, c, level, parentX2) ==
    IF c > Len(children) THEN <<>>
    ELSE createNodesEachReversed(impl, cfg, children, c + 1, level, parentX2)
         \o createNodes(impl, cfg, children[c], level, c - 1, Len(children), parentX2)

\* the flowNodes pushed by createNodes(node, level, position, totalSiblings, parentX)
createNodes(impl, cfg, node, level, position, totalSiblings, parentX2) ==
    LET x2 == NodeX2(impl, cfg, level, position, totalSiblings, parentX2)
        y2 == NodeY2(cfg, level)
    IN <<FlowNode(node, x2, y2)>> \o
       (IF HasChildren(node)
        THEN createNodesEach(impl, cfg, node.children, 1, level + 1, x2)
        ELSE <<>>)

\* node.children.forEach((childNode, idx) => createNodes(childNode, level + 1, idx, ...))
createNodesEach(impl, cfg, children, c, level, parentX2) ==
    IF c > Len(children) THEN <<>>
    ELSE createNodes(impl, cfg, children[c], level, c - 1, Len(children), parentX2)
         \o createNodesEach(impl, cfg, children, c + 1, level, parentX2)

\* an edge pointing from the child to its parent
FlowEdgeReversed(node, childNode) ==
    [id |-> <<node.id, "-", childNode.id>>, source |-> childNode.id, target |-> node.id]

FlowEdge(node, childNode) ==
    [id |-> <<node.id, "-", childNode.id>>, source |-> node.id, target |-> childNode.id]

RECURSIVE createEdges(_)
RECURSIVE createEdgesEach(_, _)
\* createEdges pushing an edge for a node without children
createEdgesLeafLoop(node) ==
    IF HasChildren(node) THEN createEdgesEach(node, 1) ELSE <<FlowEdge(node, node)>>

\* the flowEdges pushed by createEdges(node)
createEdges(node) ==
    IF HasChildren(node) THEN createEdgesEach(node, 1) ELSE <<>>

createEdgesEach(node, c) ==
    IF c > Len(node.children) THEN <<>>
    ELSE <<FlowEdge(node, node.children[c])>> \o createEdges(node.children[c])
         \o createEdgesEach(node, c + 1)

\* treeNodes.find(node => node.type === 'goal'): index of the first goal, or 0
FindGoal(treeNodes) ==
    LET goals == {i \in 1..Len(treeNodes) :
                     "type" \in DOMAIN treeNodes[i] /\ treeNodes[i].type = "goal"}
    IN IF goals = {} THEN 0 ELSE CHOOSE i \in goals : \A k \in goals : i <= k

\* const rootNode = ...: index of the root in treeNodes, 0 when undefined
RootIndex(impl, treeNodes) ==
    IF Len(treeNodes) = 0 THEN 0
    ELSE IF impl = "AttackTree" THEN 1
    ELSE IF FindGoal(treeNodes) # 0 THEN FindGoal(treeNodes) ELSE 1

\* the commit: setNodes(flowNodes); setEdges(flowEdges)
Commits(impl, flowNodes, flowEdges) ==
    IF impl = "AttackTree" THEN Len(flowNodes) > 0 /\ Len(flowEdges) > 0 ELSE TRUE

\* the number of nested calls the engine's call stack holds before it raises
\* RangeError: above the depth of every stored tree within the bounds
StackLimit == MaxNodes + 2

RECURSIVE Depth(_)
RECURSIVE DepthFrom(_, _)
\* the number of levels of the tree under node
Depth(node) ==
    IF HasChildren(node) THEN 1 + DepthFrom(node.children, 1) ELSE 1

DepthFrom(children, c) ==
    IF c > Len(children) THEN 0
    ELSE Max(Depth(children[c]), DepthFrom(children, c + 1))

\* createNodes calls itself for every child of every record without a visited
\* set: it nests as deep as the tree under the root and raises RangeError
\* when that is deeper than the call stack
LayoutRaises(impl, treeNodes) ==
    /\ RootIndex(impl, treeNodes) # 0
    /\ Depth(treeNodes[RootIndex(impl, treeNodes)]) > StackLimit

\* catch (error) { console.error(...); setError(...) } of the AttackTree
\* page, catch (error) { console.error(...) } of the report page: the error
\* state after processAttackTreeData(treeNodes)
LayoutCatch(impl, treeNodes, errorBefore) ==
    IF impl = "AttackTree" /\ LayoutRaises(impl, treeNodes)
    THEN "Failed to process attack tree visualization. Please try again."
    ELSE errorBefore

\* the pushes of processAttackTreeData(treeNodes) in the order they are made:
\* createNodes(rootNode, 0, 0, 1, 0) runs to its end, then createEdges(rootNode)
LayoutPushes(impl, treeNodes) ==
    LET r == RootIndex(impl, treeNodes)
        flowNodes == createNodes(impl, Config, treeNodes[r], 0, 0, 1, 0)
        flowEdges == createEdges(treeNodes[r])
    IN IF r = 0 THEN <<>>
       ELSE [i \in 1..Len(flowNodes) |-> [to |-> "flowNodes", item |-> flowNodes[i]]]
            \o [i \in 1..Len(flowEdges) |-> [to |-> "flowEdges", item |-> flowEdges[i]]]

\* the array the pushes have filled
Pushed(pushes, to) ==
    LET kept == SelectSeq(pushes, LAMBDA p : p.to = to)
    IN [i \in 1..Len(kept) |-> kept[i].item]

\* processAttackTreeData laying out a placeholder root for an empty list
processAttackTreeDataDefaultRoot(impl, treeNodes, before) ==
    LET rootNode == IF treeNodes = <<>> THEN [id |-> "root", label |-> <<"G">>]
                    ELSE treeNodes[RootIndex(impl, treeNodes)]
    IN <<createNodes(impl, Config, rootNode, 0, 0, 1, 0), createEdges(rootNode)>>

\* processAttackTreeData with flowNodes and flowEdges kept between calls
processAttackTreeDataAccumulates(impl, treeNodes, before) ==
    IF treeNodes = <<>> THEN before
    ELSE LET rootNode == treeNodes[RootIndex(impl, treeNodes)]
         IN <<before[1] \o createNodes(impl, Config, rootNode, 0, 0, 1, 0),
              before[2] \o createEdges(rootNode)>>

\* processAttackTreeData(treeNodes) with the state <<nodes, edges>> before it:
\* the state <<nodes, edges>> after it
processAttackTreeData(impl, treeNodes, before) ==
    LET r == RootIndex(impl, treeNodes)
    IN IF r = 0 \/ LayoutRaises(impl, treeNodes) THEN before
       ELSE LET pushes == LayoutPushes(impl, treeNodes)
                flowNodes == Pushed(pushes, "flowNodes")
                flowEdges == Pushed(pushes, "flowEdges")
            IN IF Commits(impl, flowNodes, flowEdges)
               THEN <<flowNodes, flowEdges>>
               ELSE before

(***************************************************************************)
(* Export: generateSimplifiedMermaidDiagram of pages/Dread.tsx (the PDF    *)
(* copy and the markdown copy are the same text).  The text is a sequence  *)
(* of lines, a line a sequence of its pieces.                              *)
(***************************************************************************)
\* label.replace('"', "'"): only the first double quote is replaced
EscapeLabelFirstOnly(label) ==
    [i \in 1..Len(label) |->
        IF label[i] = "\"" /\ \A j \in 1..(i - 1) : label[j] # "\""
        THEN "'" ELSE label[i]]

\* label.replace(/"/g, "'")
EscapeLabel(label) ==
    [i \in 1..Len(label) |-> IF label[i] = "\"" THEN "'" ELSE label[i]]

\* `    ${node.id}["${...}"]\n`
DeclLine(node) ==
    <<"    ", node.id, "[\"">> \o EscapeLabel(node.label) \o <<"\"]", "\n">>

\* `    ${node.id} --> ${child.id}\n`
ArrowLine(node, child) == <<"    ", node.id, " --> ", child.id, "\n">>

HeaderLine == <<"graph TD", "\n">>

\* AlreadyProcessed without the visited-id guard
AlreadyProcessedNever(node, acc) == FALSE

\* if (processedNodeIds.has(node.id)) return
AlreadyProcessed(node, acc) == node.id \in acc.processedNodeIds

\* MarkProcessed forgetting the id
MarkProcessedNothing(node, acc) == acc.processedNodeIds

\* processedNodeIds.add(node.id)
MarkProcessed(node, acc) == acc.processedNodeIds \cup {node.id}

RECURSIVE processNode(_, _)
RECURSIVE processNodeEachArrowOnly(_, _, _)
\* a forEach that writes the arrow lines and does not process the children
processNodeEachArrowOnly(node, c, acc) ==
    IF c > Len(node.children) \/ acc.rangeError THEN acc
    ELSE processNodeEachArrowOnly(node, c + 1,
             [acc EXCEPT !.mermaidContent =
                             Append(@, ArrowLine(node, node.children[c]))])

RECURSIVE processNodeEach(_, _, _)
\* processNode(node) on the accumulator [mermaidContent, processedNodeIds];
\* frames counts the calls of processNode on the call stack, rangeError is
\* set when a call does not fit on it
processNode(node, acc) ==
    IF acc.rangeError THEN acc
    ELSE IF acc.frames >= StackLimit THEN [acc EXCEPT !.rangeError = TRUE]
    ELSE IF AlreadyProcessed(node, acc) THEN acc
    ELSE LET declared ==
                 [acc EXCEPT
                     !.mermaidContent = Append(@, DeclLine(node)),
                     !.processedNodeIds = MarkProcessed(node, acc),
                     !.frames = @ + 1]
              returned ==
                 IF HasChildren(node) THEN processNodeEach(node, 1, declared)
                 ELSE declared
         IN [returned EXCEPT !.frames = acc.frames]

\* node.children.forEach(child => { arrow line; processNode(child) })
processNodeEach(node, c, acc) ==
    IF c > Len(node.children) \/ acc.rangeError THEN acc
    ELSE LET child == node.children[c]
             arrowed == [acc EXCEPT
                            !.mermaidContent = Append(@, ArrowLine(node, child))]
         IN processNodeEach(node, c + 1, processNode(child, arrowed))

\* ExportRootIndex with const rootNode = nodes[0]
ExportRootIndexFirst(treeNodes) == IF Len(treeNodes) = 0 THEN 0 ELSE 1

\* const rootNode = nodes.find(node => node.type === 'goal') || nodes[0]
ExportRootIndex(treeNodes) ==
    IF Len(treeNodes) = 0 THEN 0
    ELSE IF FindGoal(treeNodes) # 0 THEN FindGoal(treeNodes) ELSE 1

\* StartExport keeping the visited ids of the call before
StartExportKeepsVisited(previous) ==
    [mermaidContent |-> <<HeaderLine>>,
     processedNodeIds |->
         IF "processedNodeIds" \in DOMAIN previous
         THEN previous.processedNodeIds ELSE {},
     frames |-> 0, rangeError |-> FALSE]

\* let mermaidContent = "graph TD\n"; const processedNodeIds = new Set():
\* the accumulator a call starts from, whatever the call before has left
StartExport(previous) ==
    [mermaidContent |-> <<HeaderLine>>, processedNodeIds |-> {},
     frames |-> 0, rangeError |-> FALSE]

\* generateSimplifiedMermaidDiagram(nodes) called after a call that left the
\* accumulator previous: the accumulator at its end (mermaidContent is the
\* text returned, unless rangeError)
generateSimplifiedMermaidDiagram(treeNodes, previous) ==
    LET start == StartExport(previous)
        r == ExportRootIndex(treeNodes)
    IN IF r = 0 THEN start ELSE processNode(treeNodes[r], start)

(***************************************************************************)
(* Envelopes: the JSON bodies the storage endpoint can answer with.        *)
(***************************************************************************)
TopLevelPath == <<"nodes">>
ResultTreePath == <<"result", "attack_tree", "nodes">>
ResultPath == <<"result", "nodes">>
DoubleTreePath == <<"result", "result", "attack_tree", "nodes">>
DoublePath == <<"result", "result", "nodes">>
DocumentedPaths ==
    {TopLevelPath, ResultTreePath, ResultPath, DoubleTreePath, DoublePath}

RECURSIVE Nest(_, _)
\* the object holding v at the end of path
Nest(path, v) ==
    IF path = <<>> THEN v ELSE [k \in {Head(path)} |-> Nest(Tail(path), v)]

\* an envelope carrying the node list at one location
Envelope(path, list) == [timestamp |-> "ts"] @@ Nest(path, list)

\* envelopes carrying no node list
BareEnvelopes ==
    {Null, EmptyObject,
     [timestamp |-> "ts", result |-> [markdown |-> "md"]],
     [timestamp |-> "ts", result |-> [result |-> [markdown |-> "md"]]]}

Envelopes ==
    BareEnvelopes \cup
    {Envelope(path, list) : <<path, list>> \in DocumentedPaths \X NodeLists}

\* what storage can hold by the time the fallback request is answered: the
\* same document, or a freshly written attack tree of at most MaxFreshNodes
MaxFreshNodes == 1
FreshNodeLists ==
    UNION {{BuildList(parent, [i \in 1..n |-> IdName(i)], types, n) :
                <<parent, types>> \in Shapes(n) \X TypeMaps(n)} :
           n \in 1..MaxFreshNodes}
FallbackBodies(first) ==
    {first} \cup {Envelope(DoubleTreePath, list) : list \in FreshNodeLists}

(***************************************************************************)
(* pages/AttackTree.tsx: fetchData.                                        *)
(***************************************************************************)
ProcessedData(timestamp, markdown, list) ==
    [timestamp |-> timestamp,
     result |-> [result |-> [markdown |-> markdown,
                             attack_tree |-> [nodes |-> list]]]]

NotFound == [found |-> FALSE]

\* Case 1: if (data?.result?.result?.attack_tree?.nodes)
Case1(body) ==
    IF Has(body, DoubleTreePath)
    THEN [found |-> TRUE,
          processedData |->
              ProcessedData(Field(body, "timestamp"),
                            Field(body.result.result, "markdown"),
                            At(body, DoubleTreePath)),
          treeNodes |-> At(body, DoubleTreePath)]
    ELSE NotFound

\* Case 2: else if (data?.result?.attack_tree?.nodes)
Case2(body) ==
    IF Has(body, ResultTreePath)
    THEN [found |-> TRUE,
          processedData |->
              ProcessedData(Field(body, "timestamp"),
                            OrElse(Field(body.result, "markdown"), ""),
                            At(body, ResultTreePath)),
          treeNodes |-> At(body, ResultTreePath)]
    ELSE NotFound

\* Case3 left out of the chain
Case3Dropped(body) == NotFound

\* Case 3: else if (data?.result?.nodes)
Case3(body) ==
    IF Has(body, ResultPath)
    THEN [found |-> TRUE,
          processedData |->
              ProcessedData(OrElse(Field(body, "timestamp"), "now"),
                            OrElse(Field(body.result, "markdown"), ""),
                            At(body, ResultPath)),
          treeNodes |-> At(body, ResultPath)]
    ELSE NotFound

\* "Handle various possible response structures": processedData and treeNodes
NormalizeEnvelope(body) ==
    IF Case1(body).found THEN Case1(body)
    ELSE IF Case2(body).found THEN Case2(body)
    ELSE Case3(body)

\* the fallback: if (attackTreeResponse?.result?.result?.attack_tree?.nodes)
NormalizeFallback(body) ==
    IF Has(body, DoubleTreePath)
    THEN [found |-> TRUE,
          processedData |->
              ProcessedData(Field(body, "timestamp"),
                            OrElse(Field(body.result.result, "markdown"), ""),
                            At(body, DoubleTreePath)),
          treeNodes |-> At(body, DoubleTreePath)]
    ELSE NotFound

\* FetchDataCatch rethrowing instead of setting the error
FetchDataCatchRethrows(message) == [error |-> NoError, unhandled |-> TRUE]

\* catch (err) { setError(errorMessage) }: the error state and whether the
\* exception leaves fetchData
FetchDataCatch(message) == [error |-> message, unhandled |-> FALSE]

\* what no step of a single load changes: the mounted page and its route
\* parameter; calls is used where loads overlap
Mount == <<route, assessment_id, calls>>

\* setAttackTreeData(processedData); processAttackTreeData(treeNodes)
ShowTree(found) ==
    /\ attackTreeData' = found.processedData
    /\ LET after == processAttackTreeData("AttackTree", found.treeNodes,
                                          <<nodes, edges>>)
       IN nodes' = after[1] /\ edges' = after[2]
    /\ error' = LayoutCatch("AttackTree", found.treeNodes, error)

\* throw inside try: catch, then finally { setLoading(false) }
Throw(message) ==
    /\ error' = FetchDataCatch(message).error
    /\ unhandled' = FetchDataCatch(message).unhandled
    /\ loading' = FALSE
    /\ pc' = "done"

ReportVars == <<reportData, vizNodes, vizEdges, mermaid, lastExport, downloadError>>

\* if (!assessment_id) { setError('No assessment ID provided'); return; }
NoAssessmentId ==
    /\ route = "AttackTree" /\ pc = "mounted"
    /\ error' = "No assessment ID provided"
    /\ pc' = "done"
    /\ UNCHANGED <<Mount, data, attackTreeData, nodes, edges, loading, unhandled,
                   ReportVars, analytics>>

\* the storage request fails: !response.ok, or fetch / response.json() rejects
FetchFails ==
    /\ route = "AttackTree" /\ pc = "mounted"
    /\ Throw("Failed to fetch attack tree data")
    /\ UNCHANGED <<Mount, data, attackTreeData, nodes, edges, ReportVars, analytics>>

\* const data = await response.json(), then the three cases
FetchRespondsWith(body) ==
    /\ data' = body
    /\ LET found == NormalizeEnvelope(body)
       IN IF found.found
          THEN ShowTree(found) /\ pc' = "extras"
          ELSE pc' = "fallback" /\ UNCHANGED <<attackTreeData, nodes, edges, error>>
    /\ UNCHANGED <<Mount, loading, unhandled, ReportVars, analytics>>

FetchResponds ==
    /\ route = "AttackTree" /\ pc = "mounted"
    /\ \E body \in Envelopes : FetchRespondsWith(body)

\* apiService.getAttackTree rejects
FallbackFails ==
    /\ route = "AttackTree" /\ pc = "fallback"
    /\ Throw("Failed to fetch attack tree")
    /\ UNCHANGED <<Mount, data, attackTreeData, nodes, edges, ReportVars, analytics>>

\* const attackTreeResponse = await apiService.getAttackTree(assessment_id)
FallbackRespondsWith(body) ==
    /\ data' = body
    /\ LET found == NormalizeFallback(body)
       IN IF found.found
          THEN /\ ShowTree(found) /\ pc' = "extras"
               /\ UNCHANGED <<loading, unhandled>>
          ELSE /\ Throw("Invalid attack tree data format received")
               /\ UNCHANGED <<attackTreeData, nodes, edges>>
    /\ UNCHANGED <<Mount, ReportVars, analytics>>

FallbackResponds ==
    /\ route = "AttackTree" /\ pc = "fallback"
    /\ \E body \in FallbackBodies(data) : FallbackRespondsWith(body)

\* Promise.allSettled([...]) resolves; finally { setLoading(false) }
ExtrasSettled ==
    /\ route = "AttackTree" /\ pc = "extras"
    /\ loading' = FALSE
    /\ pc' = "done"
    /\ UNCHANGED <<Mount, data, attackTreeData, nodes, edges, error, unhandled,
                   ReportVars, analytics>>

(***************************************************************************)
(* pages/Dread.tsx: the report page.                                       *)
(***************************************************************************)
\* data.result.attack_tree of the report response, when present
ReportAttackTrees ==
    {Envelope(DoubleTreePath, list) : list \in NodeLists} \cup
    {[timestamp |-> "ts", result |-> [result |-> [markdown |-> "md"]]],
     [timestamp |-> "ts", result |-> [markdown |-> "md"]],
     [timestamp |-> "ts"]}

\* transformAttackTree(data); Null when data.result.result throws a TypeError,
\* which fetchReportData's catch turns into attack_tree.data = null
transformAttackTree(tree) ==
    IF Has(tree, <<"result", "result">>)
    THEN [timestamp |-> Field(tree, "timestamp"),
          result |->
              [result |->
                  [markdown |-> OrElse(Field(tree.result.result, "markdown"), "")]
                  @@ (IF "attack_tree" \in DOMAIN tree.result.result
                      THEN [attack_tree |-> tree.result.result.attack_tree]
                      ELSE EmptyObject)]]
    ELSE Null

\* AttackTreeVisualization's effect on the prop reportData...data?.result?.result
VisualizationEffect(shown) ==
    IF Has(shown, DoubleTreePath)
    THEN processAttackTreeData("Report", At(shown, DoubleTreePath),
                               <<vizNodes, vizEdges>>)
    ELSE <<vizNodes, vizEdges>>

PageVars == <<data, attackTreeData, nodes, edges, loading, error, unhandled>>

\* getReport rejects, or answers without data.result or without attack_tree
ReportWithoutTree ==
    /\ route = "Report" /\ pc = "mounted"
    /\ reportData' = Null
    /\ pc' = "shown"
    /\ UNCHANGED <<Mount, PageVars, vizNodes, vizEdges, mermaid, lastExport,
                   downloadError, analytics>>

\* setReportData({... attack_tree: {data: transformAttackTree(attackTree)}}),
\* then the render of AttackTreeVisualization and its effect
ReportRespondsWith(tree) ==
    /\ reportData' = transformAttackTree(tree)
    /\ LET after == VisualizationEffect(reportData')
       IN vizNodes' = after[1] /\ vizEdges' = after[2]
    /\ pc' = "shown"
    /\ UNCHANGED <<Mount, PageVars, mermaid, lastExport, downloadError, analytics>>

ReportResponds ==
    /\ route = "Report" /\ pc = "mounted"
    /\ \E tree \in ReportAttackTrees : ReportRespondsWith(tree)

\* the static diagram of the markdown download (abridged to its first lines)
StaticDiagram ==
    <<HeaderLine,
      <<"    ", "A1", "[\"", "Compromise Web Application to Access Top Secret Bank Balance Details", "\"]", "\n">>,
      <<"    ", "B1", "[\"", "Exploit SSO Vulnerabilities", "\"]", "\n">>,
      <<"    ", "A1", " --> ", "B1", "\n">>>>

\* setDownloadError(null); const mermaidDiagram =
\* generateSimplifiedMermaidDiagram(...nodes); catch (err) { setDownloadError(message) }
Export(message) ==
    LET call == generateSimplifiedMermaidDiagram(At(reportData, DoubleTreePath),
                                                 lastExport)
    IN /\ lastExport' = call
       /\ IF call.rangeError
          THEN downloadError' = message /\ UNCHANGED mermaid
          ELSE downloadError' = NoError /\ mermaid' = call.mermaidContent

\* handleDownload: the PDF copy of the diagram
DownloadPdf ==
    /\ route = "Report" /\ pc = "shown"
    /\ Has(reportData, DoubleTreePath)
    /\ Export("Failed to generate PDF report")
    /\ UNCHANGED <<Mount, pc, PageVars, reportData, vizNodes, vizEdges, analytics>>

\* handleDownloadMarkdown: if (reportData.attack_tree.data) { ... }
DownloadMarkdown ==
    /\ route = "Report" /\ pc = "shown"
    /\ reportData # Null
    /\ IF Has(reportData, DoubleTreePath)
       THEN Export("Failed to generate markdown report")
       ELSE /\ mermaid' = StaticDiagram
            /\ downloadError' = NoError
            /\ UNCHANGED lastExport
    /\ UNCHANGED <<Mount, pc, PageVars, reportData, vizNodes, vizEdges, analytics>>

(***************************************************************************)
(* pages/Analytics.tsx: getAttackTreeData.                                 *)
(***************************************************************************)
\* report.attack_tree.result of a stored report
AnalyticsResults ==
    {[attack_tree |-> [nodes |-> list]] : list \in NodeLists} \cup
    {[result |-> [attack_tree |-> [nodes |-> list]]] : list \in NodeLists} \cup
    {EmptyObject, [markdown |-> "md"], [result |-> [markdown |-> "md"]]}

\* the value returned, and whether an exception leaves the function
getAttackTreeData(result) ==
    IF Has(result, <<"attack_tree">>)
    THEN [value |-> result.attack_tree, unhandled |-> FALSE]
    ELSE IF Has(result, <<"result", "attack_tree">>)
    THEN [value |-> result.result.attack_tree, unhandled |-> FALSE]
    ELSE [value |-> NoObject, unhandled |-> FALSE]

\* const attackTree = getAttackTreeData(report.attack_tree.result)
AnalyticsReadsWith(result) ==
    /\ analytics' = getAttackTreeData(result).value
    /\ unhandled' = getAttackTreeData(result).unhandled
    /\ data' = result
    /\ pc' = "done"
    /\ UNCHANGED <<Mount, attackTreeData, nodes, edges, loading, error, ReportVars>>

AnalyticsReads ==
    /\ route = "Analytics" /\ pc = "mounted"
    /\ \E result \in AnalyticsResults : AnalyticsReadsWith(result)

(***************************************************************************)
(* The specification.                                                      *)
(***************************************************************************)
Routes == {"AttackTree", "Report", "Analytics"}

Init ==
    /\ route \in Routes
    /\ pc = "mounted"
    /\ data = NoObject
    /\ attackTreeData = Null
    /\ nodes = <<>>
    /\ edges = <<>>
    /\ loading = TRUE
    /\ error = NoError
    /\ unhandled = FALSE
    /\ reportData = Null
    /\ vizNodes = <<>>
    /\ vizEdges = <<>>
    /\ mermaid = <<>>
    /\ lastExport = NoObject
    /\ downloadError = NoError
    /\ analytics = NoObject
    /\ assessment_id = 1
    /\ calls = {}

Next ==
    \/ NoAssessmentId
    \/ FetchFails
    \/ FetchResponds
    \/ FallbackFails
    \/ FallbackResponds
    \/ ExtrasSettled
    \/ ReportWithoutTree
    \/ ReportResponds
    \/ DownloadPdf
    \/ DownloadMarkdown
    \/ AnalyticsReads

Spec == Init /\ [][Next]_vars

(***************************************************************************)
(* Node graphs as objects in memory.  AttackTreeNode.children holds        *)
(* references, so the same object can be the child of two objects and an   *)
(* object can be reached from itself.  A traversal that follows the        *)
(* references sees the unfolding of the graph from its root; the unfolding *)
(* is kept down to the first level that no longer fits on the call stack.  *)
(***************************************************************************)
MaxObjects == 4

\* an ordered tree of k objects under object 1, numbered in preorder
TreeShapes(k) == {parent \in Shapes(k) : \A i \in 2..k : parent[i] # 0}

\* one more child reference <<from, to>> between two objects of the tree
\* (to an ancestor or to itself: a cycle; to another object: a shared
\* child), or none: <<0, 0>>
ExtraRefs(k) == {<<0, 0>>} \cup ((1..k) \X (1..k))

\* graph[i] is the children array of object i: its children in the tree,
\* then the extra reference
Graph(parent, k, extra) ==
    [i \in 1..k |->
        ChildrenOf(parent, k, i) \o (IF extra[1] = i THEN <<extra[2]>> ELSE <<>>)]

Graphs ==
    UNION {{Graph(parent, k, extra) :
                <<parent, extra>> \in TreeShapes(k) \X ExtraRefs(k)} :
           k \in 1..MaxObjects}

RECURSIVE Unfold(_, _, _)
\* object i as a traversal sees it, levels levels deep
Unfold(graph, i, levels) ==
    [id |-> IdName(i), label |-> LabelOf(i),
     type |-> IF i = 1 THEN "goal" ELSE "attack"] @@
    (IF levels > 1
     THEN [children |->
              [c \in 1..Len(graph[i]) |-> Unfold(graph, graph[i][c], levels - 1)]]
     ELSE EmptyObject)

\* the node list holding the root object of graph
GraphList(graph) == <<Unfold(graph, 1, StackLimit + 1)>>

\* the storage document holds a node graph
FetchGraph ==
    /\ route = "AttackTree" /\ pc = "mounted"
    /\ \E graph \in Graphs :
           FetchRespondsWith(Envelope(DoubleTreePath, GraphList(graph)))

\* the report holds a node graph
ReportGraph ==
    /\ route = "Report" /\ pc = "mounted"
    /\ \E graph \in Graphs :
           ReportRespondsWith(Envelope(DoubleTreePath, GraphList(graph)))

NextGraph ==
    \/ FetchGraph
    \/ ExtrasSettled
    \/ ReportGraph
    \/ DownloadPdf
    \/ DownloadMarkdown

SpecGraph == Init /\ [][NextGraph]_vars

(***************************************************************************)
(* A page that stays mounted while the assessment_id of its route changes: *)
(* the effects with [assessment_id] among their dependencies run again,    *)
(* on the state the earlier load has left.                                 *)
(***************************************************************************)
\* the tree of one record, of two records, a chain of three records, and the
\* tree with a goal, two attacks under it and a vulnerability under the first
\* attack
SingleList == BuildList(<<0>>, <<IdName(1)>>, <<"goal">>, 1)
PairList == BuildList(<<0, 1>>, <<IdName(1), IdName(2)>>, <<"goal", "attack">>, 2)
ChainList ==
    BuildList(<<0, 1, 2>>, <<IdName(1), IdName(2), IdName(3)>>,
              <<"attack", "attack", "goal">>, 3)
ScenarioList ==
    BuildList(<<0, 1, 2, 1>>, <<IdName(1), IdName(2), IdName(3), IdName(4)>>,
              <<"goal", "attack", "vulnerability", "attack">>, 4)

ReloadLists == {<<>>, SingleList, PairList, ChainList, ScenarioList}

\* the effect of AttackTree runs again: fetchData up to its first await
AssessmentChanges ==
    /\ route = "AttackTree" /\ pc = "done"
    /\ loading' = TRUE
    /\ data' = NoObject
    /\ pc' = "mounted"
    /\ UNCHANGED <<Mount, attackTreeData, nodes, edges, error, unhandled,
                   ReportVars, analytics>>

\* the storage document of the assessment holds one of the trees
FetchReload ==
    /\ route = "AttackTree" /\ pc = "mounted"
    /\ \E path \in {DoubleTreePath, ResultTreePath, ResultPath} : \E list \in ReloadLists :
           FetchRespondsWith(Envelope(path, list))

\* getReport answers for the assessment: setReportData, and the effect of
\* the AttackTreeVisualization that stays mounted, or of a new one
ReportChanges ==
    /\ route = "Report" /\ pc \in {"mounted", "shown"}
    /\ \E tree \in {Envelope(DoubleTreePath, list) : list \in ReloadLists} \cup
                   {[timestamp |-> "ts", result |-> [result |-> [markdown |-> "md"]]]} :
           ReportRespondsWith(tree)

\* getReport rejects or answers without attack_tree: attack_tree.data = null
\* unmounts the AttackTreeVisualization and its state with it
ReportLosesTree ==
    /\ route = "Report" /\ pc \in {"mounted", "shown"}
    /\ reportData' = Null
    /\ vizNodes' = <<>>
    /\ vizEdges' = <<>>
    /\ pc' = "shown"
    /\ UNCHANGED <<Mount, PageVars, mermaid, lastExport, downloadError, analytics>>

NextReload ==
    \/ FetchReload
    \/ FetchFails
    \/ ExtrasSettled
    \/ AssessmentChanges
    \/ ReportChanges
    \/ ReportLosesTree

SpecReload == Init /\ [][NextReload]_vars

(***************************************************************************)
(* Overlapping loads of the AttackTree page.  The effect calls fetchData   *)
(* on every change of assessment_id and returns no cleanup: a call         *)
(* suspended at an await keeps running, and its continuation sets the      *)
(* state of the page whenever its response arrives.                        *)
(***************************************************************************)
MaxAssessments == 2

\* the trees the storage can hold for assessment k: their root is IdName(k)
StoredTrees(k) ==
    {BuildList(<<0, 1>>, <<IdName(k), IdName(k + 1)>>, <<"goal", "attack">>, 2),
     BuildList(<<0, 1, 1>>, <<IdName(k), IdName(k + 1), IdName(k + 2)>>,
               <<"goal", "attack", "attack">>, 3)}

\* fetchData() for the current assessment_id, up to await fetch(...)
FetchStarts ==
    /\ route = "AttackTree" /\ pc = "mounted"
    /\ loading' = TRUE
    /\ calls' = calls \cup {[id |-> assessment_id, at |-> "storage"]}
    /\ pc' = "waiting"
    /\ UNCHANGED <<route, assessment_id, data, attackTreeData, nodes, edges, error,
                   unhandled, ReportVars, analytics>>

\* the route parameter changes while the page stays mounted: the effect runs
\* again and calls fetchData() for the new assessment_id
AssessmentChangesInFlight ==
    /\ route = "AttackTree" /\ pc \in {"waiting", "done"}
    /\ assessment_id < MaxAssessments
    /\ assessment_id' = assessment_id + 1
    /\ loading' = TRUE
    /\ calls' = calls \cup {[id |-> assessment_id', at |-> "storage"]}
    /\ pc' = "waiting"
    /\ UNCHANGED <<route, data, attackTreeData, nodes, edges, error, unhandled,
                   ReportVars, analytics>>

\* the position of the page's effect once the call has left calls
AfterCall(remaining) == IF remaining = {} THEN "done" ELSE "waiting"

\* the response of the storage request of call arrives: the three cases,
\* setAttackTreeData, processAttackTreeData, up to await Promise.allSettled
StorageAnswersWith(call, body) ==
    /\ data' = body
    /\ ShowTree(NormalizeEnvelope(body))
    /\ calls' = (calls \ {call}) \cup {[call EXCEPT !.at = "extras"]}
    /\ UNCHANGED <<route, assessment_id, pc, loading, unhandled, ReportVars, analytics>>

StorageAnswers ==
    /\ route = "AttackTree"
    /\ \E call \in {c \in calls : c.at = "storage"} :
       \E path \in {DoubleTreePath, ResultTreePath, ResultPath} :
       \E list \in StoredTrees(call.id) :
           StorageAnswersWith(call, Envelope(path, list))

\* the storage request of call fails: catch, finally
StorageFails ==
    /\ route = "AttackTree"
    /\ \E call \in {c \in calls : c.at = "storage"} :
           /\ error' = FetchDataCatch("Failed to fetch attack tree data").error
           /\ unhandled' = FetchDataCatch("Failed to fetch attack tree data").unhandled
           /\ loading' = FALSE
           /\ calls' = calls \ {call}
           /\ pc' = AfterCall(calls')
    /\ UNCHANGED <<route, assessment_id, data, attackTreeData, nodes, edges,
                   ReportVars, analytics>>

\* Promise.allSettled of call resolves; finally { setLoading(false) }
ExtrasSettle ==
    /\ route = "AttackTree"
    /\ \E call \in {c \in calls : c.at = "extras"} :
           /\ calls' = calls \ {call}
           /\ pc' = AfterCall(calls')
    /\ loading' = FALSE
    /\ UNCHANGED <<route, assessment_id, data, attackTreeData, nodes, edges, error,
                   unhandled, ReportVars, analytics>>

NextRace ==
    \/ FetchStarts
    \/ AssessmentChangesInFlight
    \/ StorageAnswers
    \/ StorageFails
    \/ ExtrasSettle

SpecRace == Init /\ [][NextRace]_vars

(***************************************************************************)
(* Vocabulary of the properties.                                           *)
(***************************************************************************)
RECURSIVE Size(_)
RECURSIVE SizeFrom(_, _)
\* the number of node records of the tree under node
Size(node) ==
    IF "children" \in DOMAIN node THEN 1 + SizeFrom(node.children, 1) ELSE 1

SizeFrom(children, c) ==
    IF c > Len(children) THEN 0 ELSE Size(children[c]) + SizeFrom(children, c + 1)

RECURSIVE IdsUnder(_)
RECURSIVE IdsFrom(_, _)
\* the ids of the records under node, in preorder
IdsUnder(node) ==
    <<node.id>> \o
    (IF "children" \in DOMAIN node THEN IdsFrom(node.children, 1) ELSE <<>>)

IdsFrom(children, c) ==
    IF c > Len(children) THEN <<>>
    ELSE IdsUnder(children[c]) \o IdsFrom(children, c + 1)

UniqueIds(node) ==
    \A i, j \in 1..Len(IdsUnder(node)) :
        IdsUnder(node)[i] = IdsUnder(node)[j] => i = j

\* no id occurs twice in the whole list
ListUniqueIds(list) ==
    LET ids == IdsFrom(list, 1)
    IN \A i, j \in 1..Len(ids) : ids[i] = ids[j] => i = j

NoChildren(node) == "children" \notin DOMAIN node \/ node.children = <<>>

\* the designated root of the data model: the first record of kind goal of
\* the list, or the first record when none is of kind goal
DesignatedRoot(list) ==
    IF \E i \in 1..Len(list) : "type" \in DOMAIN list[i] /\ list[i].type = "goal"
    THEN list[CHOOSE i \in 1..Len(list) :
                  /\ "type" \in DOMAIN list[i] /\ list[i].type = "goal"
                  /\ \A k \in 1..(i - 1) :
                         "type" \notin DOMAIN list[k] \/ list[k].type # "goal"]
    ELSE list[1]

\* the AttackTree page has normalised an envelope and laid its list out
PageLaidOut ==
    route = "AttackTree" /\ pc \in {"extras", "done"} /\ attackTreeData # Null
PageList == At(attackTreeData, DoubleTreePath)
PageRoot == PageList[RootIndex("AttackTree", PageList)]

\* the report page shows a report whose attack tree has a node list
VizLaidOut == route = "Report" /\ pc = "shown" /\ Has(reportData, DoubleTreePath)
VizList == At(reportData, DoubleTreePath)
VizRoot == VizList[RootIndex("Report", VizList)]

\* the report page has exported the diagram of its node list
Exported == VizLaidOut /\ mermaid # <<>>

IsDeclLine(line) == Len(line) >= 3 /\ line[3] = "[\""
IsArrowLine(line) == Len(line) >= 3 /\ line[3] = " --> "
DeclLines(text) == {i \in 1..Len(text) : IsDeclLine(text[i])}
ArrowLines(text) == {i \in 1..Len(text) : IsArrowLine(text[i])}

Origin == [x |-> 0, y |-> 0]

(***************************************************************************)
(* C1.  Layout of a tree of N >= 1 records reachable from the chosen root, *)
(* followed by the commit, leaves exactly N positioned nodes and N - 1     *)
(* edges in the state the visualization draws, on the AttackTree page and  *)
(* on the report page.                                                     *)
(***************************************************************************)
C1_LayoutCounts ==
    /\ PageLaidOut /\ PageList # <<>> =>
           /\ Len(nodes) = Size(PageRoot)
           /\ Len(edges) = Size(PageRoot) - 1
    /\ VizLaidOut /\ VizList # <<>> =>
           /\ Len(vizNodes) = Size(VizRoot)
           /\ Len(vizEdges) = Size(VizRoot) - 1

(***************************************************************************)
(* C2.  For a single-node tree (a root without children) the visualization *)
(* is handed exactly one positioned node and no edge.                      *)
(***************************************************************************)
C2_SingleNode ==
    /\ PageLaidOut /\ PageList # <<>> /\ NoChildren(PageRoot) =>
           Len(nodes) = 1 /\ edges = <<>>
    /\ VizLaidOut /\ VizList # <<>> /\ NoChildren(VizRoot) =>
           Len(vizNodes) = 1 /\ vizEdges = <<>>

(***************************************************************************)
(* C3.  The root is positioned at (0, 0): the first positioned node of a   *)
(* committed layout is the root record and sits at the origin, and the     *)
(* position createNodes computes at level 0 is the origin under every      *)
(* spacing configuration.                                                  *)
(***************************************************************************)
SpacingConfigs ==
    [baseWidth : {baseWidth, 100},
     level1 : [xGapMultiplier : {level1XGapMultiplier, 30}, siblingFactor : {level1SiblingFactor}],
     level2 : [xGapMultiplier : {level2XGapMultiplier}, siblingFactor : {level2SiblingFactor, 10}],
     verticalBase : {verticalBase, 80, 0},
     verticalIncrement : {verticalIncrement, 0},
     horizontalOffset : {horizontalOffset, 0}]

C3_RootAtOrigin ==
    /\ PageLaidOut /\ nodes # <<>> =>
           nodes[1].id = PageRoot.id /\ nodes[1].position = Origin
    /\ VizLaidOut /\ vizNodes # <<>> =>
           vizNodes[1].id = VizRoot.id /\ vizNodes[1].position = Origin
    /\ (PageLaidOut \/ VizLaidOut) =>
           \A cfg \in SpacingConfigs : \A impl \in {"AttackTree", "Report"} :
               /\ NodeX2(impl, cfg, 0, 0, 1, 0) = 0
               /\ NodeY2(cfg, 0) = 0

\* a root with children has been laid out and committed on either page
C3_Witness ==
    \/ PageLaidOut /\ Len(nodes) > 1 /\ nodes[1].position = Origin
    \/ VizLaidOut /\ Len(vizNodes) > 1 /\ vizNodes[1].position = Origin

(***************************************************************************)
(* C4.  The n >= 2 depth-1 children of the root are laid out in input      *)
(* order with x-coordinates symmetric about 0 (x[c] + x[n+1-c] = 0) and    *)
(* strictly increasing.                                                    *)
(***************************************************************************)
\* the place of the c-th child of root in the preorder list of positioned nodes
ChildPlace(root, c) == 2 + SizeFrom(SubSeq(root.children, 1, c - 1), 1)

SymmetricIncreasing(root, placed) ==
    LET n == Len(root.children)
        x(c) == placed[ChildPlace(root, c)].position.x
    IN \A c \in 1..n :
           /\ placed[ChildPlace(root, c)].id = root.children[c].id
           /\ x(c) + x(n + 1 - c) = 0
           /\ c < n => x(c) < x(c + 1)

C4_Level1Symmetric ==
    /\ PageLaidOut /\ PageList # <<>> /\ ~NoChildren(PageRoot)
           /\ Len(PageRoot.children) >= 2 =>
           SymmetricIncreasing(PageRoot, nodes)
    /\ VizLaidOut /\ VizList # <<>> /\ ~NoChildren(VizRoot)
           /\ Len(VizRoot.children) >= 2 =>
           SymmetricIncreasing(VizRoot, vizNodes)

\* a root with three depth-1 children has been laid out on the AttackTree page
C4_Witness ==
    /\ PageLaidOut /\ PageList # <<>> /\ ~NoChildren(PageRoot)
    /\ Len(PageRoot.children) = 3
    /\ Len(nodes) = 4
    /\ nodes[2].position.x < 0 /\ nodes[3].position.x = 0 /\ nodes[4].position.x > 0

(***************************************************************************)
(* C5.  The export never holds two node-declaration lines for one id, also *)
(* when an id is reachable from the root through more than one path.       *)
(***************************************************************************)
DeclaredId(line) == line[2]

C6_ExportCounts ==
    Exported /\ VizList # <<>> /\ UniqueIds(DesignatedRoot(VizList)) =>
        /\ Cardinality(DeclLines(mermaid)) = Size(DesignatedRoot(VizList))
        /\ Cardinality(ArrowLines(mermaid)) = Size(DesignatedRoot(VizList)) - 1
        /\ Len(mermaid) = 2 * Size(DesignatedRoot(VizList))

\* the tree of the scenario's shape (a root, two children, one grandchild)
\* has been exported
C6_Witness ==
    /\ Exported /\ VizList # <<>> /\ UniqueIds(DesignatedRoot(VizList))
    /\ Size(DesignatedRoot(VizList)) = 4
    /\ Len(DesignatedRoot(VizList).children) = 2
    /\ Cardinality(DeclLines(mermaid)) = 4

(***************************************************************************)
(* C7.  The first line of the export after the header is the declaration   *)
(* of the designated root, so no declaration and no arrow of another node  *)
(* precedes it, also when the goal is not the first element of the list.   *)
(***************************************************************************)
C7_RootDeclaredFirst ==
    Exported /\ VizList # <<>> =>
        /\ mermaid[1] = HeaderLine
        /\ Len(mermaid) >= 2
        /\ IsDeclLine(mermaid[2])
        /\ DeclaredId(mermaid[2]) = DesignatedRoot(VizList).id
        /\ \A i \in DeclLines(mermaid) \cup ArrowLines(mermaid) : i >= 2

\* a list whose goal is not its first element has been exported
C7_Witness ==
    /\ Exported /\ Len(VizList) >= 2
    /\ DesignatedRoot(VizList) # VizList[1]
    /\ DesignatedRoot(VizList).id # VizList[1].id
    /\ DeclaredId(mermaid[2]) = DesignatedRoot(VizList).id

(***************************************************************************)
(* C8.  Every consumer of the node list starts from the designated root    *)
(* (the first goal, else the first element): the layout of the AttackTree  *)
(* page, the layout of the report page and the export.                     *)
(***************************************************************************)
C8_ConsumersStartAtDesignatedRoot ==
    /\ PageLaidOut /\ PageList # <<>> /\ ListUniqueIds(PageList) /\ nodes # <<>> =>
           nodes[1].id = DesignatedRoot(PageList).id
    /\ VizLaidOut /\ VizList # <<>> /\ ListUniqueIds(VizList) =>
           vizNodes[1].id = DesignatedRoot(VizList).id
    /\ Exported /\ VizList # <<>> /\ ListUniqueIds(VizList) =>
           DeclaredId(mermaid[2]) = DesignatedRoot(VizList).id

(***************************************************************************)
(* C9.  As claimed: an envelope carrying a node list at any of the five    *)
(* documented locations yields that node list and not the no-data outcome. *)
(***************************************************************************)
FetchFailures == {"Failed to fetch attack tree data", "Failed to fetch attack tree"}

HandledPaths == {DoubleTreePath, ResultTreePath, ResultPath}

Recognised(body) == \E path \in HandledPaths : Has(body, path)

C10_UnrecognisedIsNoData ==
    /\ ~unhandled
    /\ route = "AttackTree" /\ pc = "done" /\ data # NoObject /\ ~Recognised(data) =>
           /\ error # NoError
           /\ attackTreeData = Null
           /\ nodes = <<>> /\ edges = <<>>
           /\ ~loading
    /\ route = "Analytics" /\ pc = "done"
           /\ ~Has(data, <<"attack_tree">>) /\ ~Has(data, <<"result", "attack_tree">>) =>
           analytics = NoObject

\* the load of the body null has ended
C10_Witness ==
    /\ route = "AttackTree" /\ pc = "done" /\ data = Null
    /\ error = "Invalid attack tree data format received"

(***************************************************************************)
(* C11.  The normaliser of the AttackTree page has exactly two outcomes:   *)
(* a non-empty node list stored as the attack tree, or the no-data outcome *)
(* (no attack tree, and the error set once the load has ended); an         *)
(* envelope whose node list is present but empty is never stored as data   *)
(* found with zero nodes.                                                  *)
(***************************************************************************)
C11_TwoOutcomes ==
    route = "AttackTree" /\ pc \in {"extras", "done"} =>
        \/ /\ attackTreeData # Null
           /\ At(attackTreeData, DoubleTreePath) # <<>>
        \/ /\ attackTreeData = Null
           /\ pc = "done" /\ error # NoError

(***************************************************************************)
(* C12.  Every positioned node's kind is goal, attack or vulnerability: a  *)
(* record whose type is missing or is any other value is emitted as goal.  *)
(***************************************************************************)
Kinds == {"goal", "attack", "vulnerability"}

C12_KindsClosed ==
    /\ \A i \in 1..Len(nodes) : nodes[i].type \in Kinds
    /\ \A i \in 1..Len(vizNodes) : vizNodes[i].type \in Kinds

(***************************************************************************)
(* C13.  Exactly one edge is emitted per parent-child relationship of the  *)
(* tree under the root, and each edge has the id parent id, hyphen, child  *)
(* id, the parent id as its source and the child id as its target.         *)
(***************************************************************************)
RECURSIVE Records(_)
RECURSIVE RecordsFrom(_, _)
\* the records of the tree under node, in preorder
Records(node) ==
    <<node>> \o
    (IF "children" \in DOMAIN node THEN RecordsFrom(node.children, 1) ELSE <<>>)

RecordsFrom(children, c) ==
    IF c > Len(children) THEN <<>>
    ELSE Records(children[c]) \o RecordsFrom(children, c + 1)

\* the parent-child relationships under root: <<k, c>> stands for the c-th
\* child of the k-th record
Relationships(root) ==
    LET recs == Records(root)
    IN {<<k, c>> \in (1..Len(recs)) \X (1..Len(recs)) :
            "children" \in DOMAIN recs[k] /\ c <= Len(recs[k].children)}

OneEdgePerRelationship(root, flowEdges) ==
    LET recs == Records(root)
        rels == Relationships(root)
    IN /\ Len(flowEdges) = Cardinality(rels)
       /\ \A rel \in rels :
              LET parent == recs[rel[1]]
                  child == parent.children[rel[2]]
              IN Cardinality({i \in 1..Len(flowEdges) :
                                 /\ flowEdges[i].source = parent.id
                                 /\ flowEdges[i].target = child.id}) =
                 Cardinality({other \in rels :
                                 /\ recs[other[1]].id = parent.id
                                 /\ recs[other[1]].children[other[2]].id = child.id})
       /\ \A i \in 1..Len(flowEdges) :
              flowEdges[i].id = <<flowEdges[i].source, "-", flowEdges[i].target>>

C13_OneEdgePerRelationship ==
    /\ PageLaidOut /\ PageList # <<>> => OneEdgePerRelationship(PageRoot, edges)
    /\ VizLaidOut /\ VizList # <<>> => OneEdgePerRelationship(VizRoot, vizEdges)

\* the report page shows a tree with a root, two children and a grandchild
C13_Witness ==
    /\ VizLaidOut /\ VizList # <<>>
    /\ Size(VizRoot) = 4 /\ Len(VizRoot.children) = 2
    /\ Len(vizEdges) = 3
    /\ \E i \in 1..3 : vizEdges[i].source # VizRoot.id

(***************************************************************************)
(* C14.  Edge endpoints are valid: the source and the target of every edge *)
(* the view holds are ids of positioned nodes of the same output, and the  *)
(* layout pushes no edge before the last positioned node is pushed.        *)
(***************************************************************************)
EndpointsPositioned(flowNodes, flowEdges) ==
    \A i \in 1..Len(flowEdges) :
        /\ \E j \in 1..Len(flowNodes) : flowNodes[j].id = flowEdges[i].source
        /\ \E j \in 1..Len(flowNodes) : flowNodes[j].id = flowEdges[i].target

NodesBeforeEdges(pushes) ==
    \A i, j \in 1..Len(pushes) :
        i < j /\ pushes[i].to = "flowEdges" => pushes[j].to = "flowEdges"

C14_EdgeEndpoints ==
    /\ EndpointsPositioned(nodes, edges)
    /\ EndpointsPositioned(vizNodes, vizEdges)
    /\ PageLaidOut => NodesBeforeEdges(LayoutPushes("AttackTree", PageList))
    /\ VizLaidOut => NodesBeforeEdges(LayoutPushes("Report", VizList))

\* the AttackTree page holds the edges of a tree three levels deep
C14_Witness ==
    /\ PageLaidOut /\ PageList # <<>>
    /\ Len(edges) >= 2 /\ Len(nodes) = Len(edges) + 1
    /\ \E i \in 1..Len(edges) : edges[i].source # PageRoot.id
    /\ EndpointsPositioned(nodes, edges)

(***************************************************************************)
(* C15.  The export ends for every finite node graph, also one with a      *)
(* cyclic child reference or with duplicate ids: no call of processNode    *)
(* exhausts the call stack, each id is expanded at most once, and the      *)
(* number of expansions (one declaration line each) is at most the number  *)
(* of distinct ids of the graph.                                           *)
(***************************************************************************)
DistinctIds(node) == {IdsUnder(node)[i] : i \in 1..Len(IdsUnder(node))}

C15_ExportTerminates ==
    /\ downloadError = NoError
    /\ VizLaidOut /\ VizList # <<>> /\ lastExport # NoObject =>
           /\ ~lastExport.rangeError
           /\ lastExport.frames = 0
           /\ Cardinality(DeclLines(lastExport.mermaidContent))
                  <= Cardinality(DistinctIds(VizList[ExportRootIndex(VizList)]))
           /\ Cardinality(DeclLines(lastExport.mermaidContent))
                  = Cardinality(lastExport.processedNodeIds)
           /\ mermaid = lastExport.mermaidContent

\* a graph in which the root is reached again from its own child has been
\* exported
C15_Witness ==
    /\ VizLaidOut /\ lastExport # NoObject
    /\ Depth(VizList[1]) > StackLimit
    /\ Cardinality(lastExport.processedNodeIds) >= 2
    /\ \E i \in ArrowLines(mermaid) : mermaid[i][4] = VizList[1].id

C17_EmptyListEmptyOutput ==
    /\ PageLaidOut /\ PageList = <<>> =>
           /\ LayoutPushes("AttackTree", PageList) = <<>>
           /\ nodes = <<>> /\ edges = <<>>
    /\ VizLaidOut /\ VizList = <<>> =>
           /\ LayoutPushes("Report", VizList) = <<>>
           /\ vizNodes = <<>> /\ vizEdges = <<>>

\* the AttackTree page has laid out an empty node list
C17_Witness ==
    /\ PageLaidOut /\ PageList = <<>> /\ pc = "done"
    /\ error = NoError /\ nodes = <<>>

(***************************************************************************)
(* C18.  After any sequence of source-tree changes the positioned nodes    *)
(* and edges the view holds are the layout of the most recent tree: no     *)
(* node and no edge computed from an earlier tree remains once a later     *)
(* tree (an empty or single-node one included) has been processed.         *)
(***************************************************************************)
HeldFrom(heldNodes, heldEdges, pushes) ==
    /\ \A i \in 1..Len(heldNodes) :
           \E j \in 1..Len(pushes) :
               pushes[j].to = "flowNodes" /\ pushes[j].item = heldNodes[i]
    /\ \A i \in 1..Len(heldEdges) :
           \E j \in 1..Len(pushes) :
               pushes[j].to = "flowEdges" /\ pushes[j].item = heldEdges[i]

C18_ViewShowsLatestTree ==
    /\ PageLaidOut => HeldFrom(nodes, edges, LayoutPushes("AttackTree", PageList))
    /\ VizLaidOut => HeldFrom(vizNodes, vizEdges, LayoutPushes("Report", VizList))
    /\ route = "Report" /\ ~Has(reportData, DoubleTreePath) =>
           vizNodes = <<>> /\ vizEdges = <<>>

(***************************************************************************)
(* C19.  Layout is deterministic: when the tree a view has laid out is     *)
(* laid out again (the spacing configuration is the same literal), the     *)
(* positioned nodes (ids, order, x and y) and the edges are the same lists *)
(* as after the first call, whatever was loaded in between.                *)
(***************************************************************************)
SameTreeAgainOnPage ==
    /\ route = "AttackTree" /\ pc = "mounted" /\ pc' = "extras"
    /\ attackTreeData # Null
    /\ PageList' = PageList

SameTreeAgainOnReport ==
    /\ VizLaidOut /\ VizLaidOut'
    /\ VizList # <<>>
    /\ VizList' = VizList

C19_LayoutDeterministic ==
    [][/\ SameTreeAgainOnPage => nodes' = nodes /\ edges' = edges
       /\ SameTreeAgainOnReport => vizNodes' = vizNodes /\ vizEdges' = vizEdges]_vars

\* the AttackTree page, after an earlier load that failed, holds the layout
\* of the scenario tree
C19_Witness ==
    /\ PageLaidOut /\ pc = "done" /\ error = "Failed to fetch attack tree data"
    /\ PageList = ScenarioList
    /\ Len(nodes) = 4 /\ Len(edges) = 3

(***************************************************************************)
(* C20.  Export is idempotent: a further call of                           *)
(* generateSimplifiedMermaidDiagram on the same node list returns the same *)
(* text and ends with the same visited ids; neither the visited-id set nor *)
(* the accumulated text of the call before carries over into it.           *)
(***************************************************************************)
C20_ExportIdempotent ==
    [][Exported /\ lastExport # NoObject /\ reportData' = reportData =>
           /\ mermaid' = mermaid
           /\ lastExport' = lastExport
           /\ downloadError' = NoError]_vars

\* a graph of three or more ids, one of them reached twice, has been exported
C20_Witness ==
    /\ Exported /\ lastExport # NoObject
    /\ Cardinality(lastExport.processedNodeIds) >= 3
    /\ Cardinality(ArrowLines(mermaid)) >= Cardinality(DeclLines(mermaid))
    /\ mermaid = lastExport.mermaidContent

(***************************************************************************)
(* Where the layout places the records of a tree: for the k-th record in   *)
(* preorder its depth, its index among its siblings, their number and the  *)
(* preorder number of its parent (0 for the root).                         *)
(***************************************************************************)
RECURSIVE Places(_, _, _, _, _, _)
RECURSIVE PlacesFrom(_, _, _, _, _)
Places(node, depth, index, siblings, parent, self) ==
    <<[depth |-> depth, index |-> index, siblings |-> siblings, parent |-> parent]>>
    \o (IF "children" \in DOMAIN node
        THEN PlacesFrom(node.children, 1, depth + 1, self, self + 1)
        ELSE <<>>)

PlacesFrom(children, c, depth, parent, next) ==
    IF c > Len(children) THEN <<>>
    ELSE Places(children[c], depth, c - 1, Len(children), parent, next)
         \o PlacesFrom(children, c + 1, depth, parent, next + Size(children[c]))

PlacesOf(root) == Places(root, 0, 0, 1, 0, 1)

RECURSIVE SumX(_, _)
\* the sum of the x of the positioned nodes with the numbers in S
SumX(placed, S) ==
    IF S = {} THEN 0
    ELSE LET k == CHOOSE k \in S : TRUE
         IN placed[k].position.x + SumX(placed, S \ {k})

(***************************************************************************)
(* C21.  Every node at depth d >= 2 with index i among n siblings has      *)
(* x = parentX + (i - (n-1)/2) * (gap + lateralOffset), gap being the gap  *)
(* of its depth; so the children of one parent have the parent's x as the  *)
(* mean of their x, and an only child has its parent's x.  (Half pixels,   *)
(* exact arithmetic.)                                                      *)
(***************************************************************************)
MaxSiblings == 5

\* x of the claim, in half pixels: gap2 is even
CentredX2(impl, cfg, depth, index, siblings, parentX2) ==
    parentX2 + (2 * index - (siblings - 1)) *
               (xGap2(impl, cfg, depth, siblings) \div 2 + LateralOffset(impl, cfg))

CentredUnderParent(impl, root, placed) ==
    LET at == PlacesOf(root)
    IN Len(placed) = Len(at) =>
       \A k \in 1..Len(at) :
           /\ at[k].depth >= 2 =>
                  /\ placed[k].position.x =
                         CentredX2(impl, Config, at[k].depth, at[k].index,
                                   at[k].siblings, placed[at[k].parent].position.x)
                  /\ at[k].siblings = 1 =>
                         placed[k].position.x = placed[at[k].parent].position.x
           /\ at[k].depth >= 1 =>
                  LET kids == {c \in 1..Len(at) : at[c].parent = k}
                  IN SumX(placed, kids) = Cardinality(kids) * placed[k].position.x

\* the x the code computes, for up to MaxSiblings siblings at depths 2 to 4
NodeXIsCentred ==
    \A impl \in {"AttackTree", "Report"} : \A depth \in 2..4 :
    \A siblings \in 1..MaxSiblings : \A index \in 0..(siblings - 1) :
    \A parentX2 \in {-900, -450, 0, 450, 675} :
        /\ xGap2(impl, Config, depth, siblings) % 2 = 0
        /\ NodeX2(impl, Config, depth, index, siblings, parentX2) =
               CentredX2(impl, Config, depth, index, siblings, parentX2)

Level1Gap2(cfg, n) ==
    (cfg.baseWidth * cfg.level1.xGapMultiplier
        * (IF n * cfg.level1.siblingFactor >= 10
           THEN n * cfg.level1.siblingFactor ELSE 10)) \div 50

Level1Row(root, placed) ==
    LET at == PlacesOf(root)
    IN Len(placed) = Len(at) =>
       \A k \in 1..Len(at) :
           at[k].depth = 1 =>
               2 * placed[k].position.x =
                   2 * at[k].index * Level1Gap2(Config, at[k].siblings)
                   - Level1Gap2(Config, at[k].siblings) * (at[k].siblings - 1)

\* the x the code computes at depth 1, for up to MaxSiblings siblings
NodeXIsLevel1Row ==
    \A impl \in {"AttackTree", "Report"} : \A cfg \in SpacingConfigs :
    \A n \in 1..MaxSiblings : \A i \in 0..(n - 1) :
        /\ xGap2(impl, cfg, 1, n) = Level1Gap2(cfg, n)
        /\ 2 * NodeX2(impl, cfg, 1, i, n, 0) =
               2 * i * Level1Gap2(cfg, n) - Level1Gap2(cfg, n) * (n - 1)

C22_Level1Formula ==
    /\ PageLaidOut /\ PageList # <<>> => Level1Row(PageRoot, nodes)
    /\ VizLaidOut /\ VizList # <<>> => Level1Row(VizRoot, vizNodes)
    /\ (PageLaidOut \/ VizLaidOut) => NodeXIsLevel1Row

\* the AttackTree page holds a root with two children at x = -225 and 225
C22_Witness ==
    /\ PageLaidOut /\ PageList # <<>> /\ Len(nodes) >= 3
    /\ ~NoChildren(PageRoot) /\ Len(PageRoot.children) = 2
    /\ nodes[2].position.x = -450
    /\ nodes[ChildPlace(PageRoot, 2)].position.x = 450

(***************************************************************************)
(* C23.  Every positioned node at depth d has                              *)
(* y = d * (verticalBase + d * verticalIncrement); the nodes of one depth  *)
(* share one y, and with verticalBase > 0 and verticalIncrement >= 0 the y *)
(* is strictly increasing in the depth.                                    *)
(***************************************************************************)
RowsByDepth(root, placed) ==
    LET at == PlacesOf(root)
    IN Len(placed) = Len(at) =>
       \A k \in 1..Len(at) :
           /\ placed[k].position.y =
                  2 * at[k].depth * (verticalBase + at[k].depth * verticalIncrement)
           /\ \A j \in 1..Len(at) :
                  /\ at[j].depth = at[k].depth =>
                         placed[j].position.y = placed[k].position.y
                  /\ at[j].depth < at[k].depth =>
                         placed[j].position.y < placed[k].position.y

\* the y the code computes under other spacing configurations
NodeYIsIncreasing ==
    \A cfg \in SpacingConfigs : \A d \in 0..MaxNodes :
        /\ NodeY2(cfg, d) = 2 * d * (cfg.verticalBase + d * cfg.verticalIncrement)
        /\ cfg.verticalBase > 0 /\ cfg.verticalIncrement >= 0 =>
               NodeY2(cfg, d) < NodeY2(cfg, d + 1)

C23_RowsByDepth ==
    /\ PageLaidOut /\ PageList # <<>> => RowsByDepth(PageRoot, nodes)
    /\ VizLaidOut /\ VizList # <<>> => RowsByDepth(VizRoot, vizNodes)
    /\ (PageLaidOut \/ VizLaidOut) => NodeYIsIncreasing

\* the report page shows a chain of four records, at y = 0, 185, 420 and 705
C23_Witness ==
    /\ VizLaidOut /\ VizList # <<>> /\ Len(vizNodes) = 4
    /\ PlacesOf(VizRoot)[4].depth = 3
    /\ vizNodes[2].position.y = 370
    /\ vizNodes[3].position.y = 840
    /\ vizNodes[4].position.y = 1410

(***************************************************************************)
(* C24.  The positioned nodes are emitted in depth-first preorder: every   *)
(* node after its parent and before every node of a later sibling's        *)
(* subtree, siblings in input order; the edges are emitted by a second     *)
(* depth-first pass, after all nodes, in the same order: the edge into a   *)
(* record is the one emitted at that record's place among the non-root     *)
(* records.                                                                *)
(***************************************************************************)
\* the places of the records under the place k (k itself included)
SubtreePlaces(root, k) == k..(k + Size(Records(root)[k]) - 1)

PreorderNodes(root, flowNodes) ==
    LET recs == Records(root)
        at == PlacesOf(root)
    IN /\ Len(flowNodes) = Len(recs)
       /\ \A k \in 1..Len(recs) :
              /\ flowNodes[k].id = recs[k].id
              /\ flowNodes[k].data.label = recs[k].label
       \* with distinct ids the place of a record in the output is the place
       \* of its id
       /\ UniqueIds(root) =>
              LET placeOf(id) == CHOOSE k \in 1..Len(flowNodes) : flowNodes[k].id = id
              IN \A rel \in Relationships(root) :
                     LET parent == recs[rel[1]]
                         child == parent.children[rel[2]]
                     IN /\ placeOf(parent.id) < placeOf(child.id)
                        /\ \A later \in (rel[2] + 1)..Len(parent.children) :
                           \A i \in 1..Len(IdsUnder(child)) :
                           \A j \in 1..Len(IdsUnder(parent.children[later])) :
                               placeOf(IdsUnder(child)[i]) <
                                   placeOf(IdsUnder(parent.children[later])[j])

PreorderEdges(root, flowEdges) ==
    LET recs == Records(root)
        at == PlacesOf(root)
    IN /\ Len(flowEdges) = Len(recs) - 1
       /\ \A k \in 2..Len(recs) :
              /\ flowEdges[k - 1].target = recs[k].id
              /\ flowEdges[k - 1].source = recs[at[k].parent].id

C24_DepthFirstOrder ==
    /\ PageLaidOut /\ PageList # <<>> =>
           /\ nodes # <<>> => /\ PreorderNodes(PageRoot, nodes)
                              /\ PreorderEdges(PageRoot, edges)
           /\ NodesBeforeEdges(LayoutPushes("AttackTree", PageList))
    /\ VizLaidOut /\ VizList # <<>> =>
           /\ PreorderNodes(VizRoot, vizNodes)
           /\ PreorderEdges(VizRoot, vizEdges)
           /\ NodesBeforeEdges(LayoutPushes("Report", VizList))

\* the AttackTree page holds a root with two children, the first of which
\* has a child: the grandchild comes before the second child
C24_Witness ==
    /\ PageLaidOut /\ PageList # <<>> /\ Len(nodes) = 4 /\ UniqueIds(PageRoot)
    /\ ~NoChildren(PageRoot) /\ Len(PageRoot.children) = 2
    /\ ~NoChildren(PageRoot.children[1])
    /\ nodes[3].id = PageRoot.children[1].children[1].id
    /\ nodes[4].id = PageRoot.children[2].id
    /\ edges[2].source = nodes[2].id /\ edges[3].source = nodes[1].id

(***************************************************************************)
(* C25.  A record whose children field is missing or is the empty list is  *)
(* a leaf for both layout passes and for the export: it gets its           *)
(* positioned node and its declaration line, no edge and no arrow line     *)
(* starts at it, and no error is set.                                      *)
(***************************************************************************)
LeafPlaces(root) == {k \in 1..Len(Records(root)) : NoChildren(Records(root)[k])}

LeavesLaidOut(impl, list) ==
    LET root == list[RootIndex(impl, list)]
        recs == Records(root)
        flowNodes == Pushed(LayoutPushes(impl, list), "flowNodes")
        flowEdges == Pushed(LayoutPushes(impl, list), "flowEdges")
    IN \A k \in LeafPlaces(root) :
           /\ k <= Len(flowNodes)
           /\ flowNodes[k].id = recs[k].id
           /\ DOMAIN flowNodes[k].position = {"x", "y"}
           /\ UniqueIds(root) =>
                  /\ \A j \in 1..Len(flowNodes) :
                         flowNodes[j].id = recs[k].id => j = k
                  /\ \A e \in 1..Len(flowEdges) :
                         flowEdges[e].source # recs[k].id

LeavesExported(root, text) ==
    LET recs == Records(root)
    IN UniqueIds(root) =>
           \A k \in LeafPlaces(root) :
               /\ Cardinality({i \in DeclLines(text) :
                                   DeclaredId(text[i]) = recs[k].id}) = 1
               /\ \A i \in ArrowLines(text) : text[i][2] # recs[k].id

C25_LeavesAreLeaves ==
    /\ PageLaidOut /\ PageList # <<>> =>
           /\ LeavesLaidOut("AttackTree", PageList)
           /\ error = NoError
    /\ VizLaidOut /\ VizList # <<>> => LeavesLaidOut("Report", VizList)
    /\ Exported /\ VizList # <<>> =>
           /\ LeavesExported(DesignatedRoot(VizList), mermaid)
           /\ downloadError = NoError

\* the report page has laid out and exported a root with two leaves, one
\* with children: [] and one without the field
C25_Witness ==
    /\ Exported /\ VizList # <<>> /\ UniqueIds(VizRoot)
    /\ VizRoot = DesignatedRoot(VizList)
    /\ ~NoChildren(VizRoot) /\ Len(VizRoot.children) = 2
    /\ "children" \in DOMAIN VizRoot.children[1]
    /\ VizRoot.children[1].children = <<>>
    /\ "children" \notin DOMAIN VizRoot.children[2]
    /\ Len(vizNodes) = 3 /\ Len(vizEdges) = 2
    /\ Cardinality(DeclLines(mermaid)) = 3
    /\ Cardinality(ArrowLines(mermaid)) = 2

(***************************************************************************)
(* C26.  In every node-declaration line the label text between the         *)
(* delimiting quotes holds no double quote: it is the label of the         *)
(* declared record with each double quote replaced by one single quote and *)
(* every other character kept, in order.                                   *)
(***************************************************************************)
\* the pieces of a declaration line between `["` and `"]`
DeclaredLabel(line) == SubSeq(line, 4, Len(line) - 2)

QuotesReplaced(label, text) ==
    /\ Len(text) = Len(label)
    /\ \A j \in 1..Len(label) :
           text[j] = (IF label[j] = "\"" THEN "'" ELSE label[j])

C26_LabelEscaped ==
    Exported /\ VizList # <<>> =>
        LET recs == Records(DesignatedRoot(VizList))
        IN \A i \in DeclLines(mermaid) :
               /\ \A j \in 1..Len(DeclaredLabel(mermaid[i])) :
                      DeclaredLabel(mermaid[i])[j] # "\""
               /\ \E k \in 1..Len(recs) :
                      /\ recs[k].id = DeclaredId(mermaid[i])
                      /\ \A earlier \in 1..(k - 1) : recs[earlier].id # recs[k].id
                      /\ QuotesReplaced(recs[k].label, DeclaredLabel(mermaid[i]))

\* a record whose label is two double quotes has been declared as two
\* single quotes
C26_Witness ==
    /\ Exported /\ VizList # <<>>
    /\ \E k \in 1..Len(Records(DesignatedRoot(VizList))) :
           Records(DesignatedRoot(VizList))[k].label = <<"\"", "\"">>
    /\ \E i \in DeclLines(mermaid) : DeclaredLabel(mermaid[i]) = <<"'", "'">>

(***************************************************************************)
(* C27.  The layout of the AttackTree page and the layout of the report    *)
(* page's AttackTreeVisualization are equivalent: for every node list they *)
(* choose the same root and commit the same positioned nodes, with the     *)
(* same x and y, and the same edges, at every depth, depth >= 3 included.  *)
(***************************************************************************)
NothingCommitted == <<(<<>>), (<<>>)>>

SameLayout(treeNodes) ==
    /\ RootIndex("AttackTree", treeNodes) = RootIndex("Report", treeNodes)
    /\ processAttackTreeData("AttackTree", treeNodes, NothingCommitted) =
       processAttackTreeData("Report", treeNodes, NothingCommitted)

\* both implementations place the children of a node at depth >= 2 alike
DeepLevelsAgree ==
    \A depth \in 3..(MaxNodes + 1) : \A siblings \in 1..MaxSiblings :
    \A index \in 0..(siblings - 1) :
        NodeX2("AttackTree", Config, depth, index, siblings, 0) =
        NodeX2("Report", Config, depth, index, siblings, 0)

C27_LayoutsEquivalent ==
    /\ PageLaidOut => SameLayout(PageList)
    /\ VizLaidOut => SameLayout(VizList)
    /\ (PageLaidOut \/ VizLaidOut) => DeepLevelsAgree

(***************************************************************************)
(* C28.  In the export text every id that is the source or the target of   *)
(* an arrow line has exactly one node-declaration line in the same text,   *)
(* for every input node graph, graphs with shared or cyclic child          *)
(* references included.                                                    *)
(***************************************************************************)
ArrowSource(line) == line[2]
ArrowTarget(line) == line[4]

DeclaredOnce(text, id) ==
    Cardinality({d \in DeclLines(text) : DeclaredId(text[d]) = id}) = 1

C28_ArrowEndsDeclared ==
    Exported =>
        \A i \in ArrowLines(mermaid) :
            /\ DeclaredOnce(mermaid, ArrowSource(mermaid[i]))
            /\ DeclaredOnce(mermaid, ArrowTarget(mermaid[i]))

\* a graph with a child reference back to its root has been exported: an
\* arrow line points at the root
C28_Witness ==
    /\ Exported /\ VizList # <<>>
    /\ \E i \in ArrowLines(mermaid) :
           /\ ArrowTarget(mermaid[i]) = VizList[1].id
           /\ ArrowSource(mermaid[i]) # VizList[1].id
    /\ DeclaredOnce(mermaid, VizList[1].id)
    /\ Cardinality(ArrowLines(mermaid)) >= Cardinality(DeclLines(mermaid))

(***************************************************************************)
(* C29.  On the AttackTree page, when assessment_id changes while an       *)
(* earlier fetchData is in flight, the tree finally displayed              *)
(* (attackTreeData, nodes, edges) belongs to the latest assessment_id: a   *)
(* response for an earlier id that arrives after the response for the      *)
(* latest id does not overwrite it.                                        *)
(***************************************************************************)
\* the page draws its tree: no load is pending and the render guards pass
TreeDisplayed ==
    /\ route = "AttackTree" /\ pc = "done" /\ calls = {}
    /\ ~loading /\ error = NoError /\ attackTreeData # Null

\* the tree the page holds is a tree stored for assessment k
BelongsTo(k) ==
    /\ attackTreeData # Null
    /\ At(attackTreeData, DoubleTreePath) \in StoredTrees(k)
    /\ nodes # <<>> /\ nodes[1].id = IdName(k)
    /\ edges # <<>> /\ edges[1].source = IdName(k)

C29_LatestAssessmentDisplayed == TreeDisplayed => BelongsTo(assessment_id)

(***************************************************************************)
(* C30.  On the AttackTree page a load that completes successfully leaves  *)
(* the page in the tree-displaying state: loading false, error null,       *)
(* attackTreeData set; also when an earlier load of the same component     *)
(* instance has failed and set the error.                                  *)
(***************************************************************************)
\* the step that ends a load which has found and laid out a tree
LoadSucceeds == route = "AttackTree" /\ pc = "extras" /\ pc' = "done"

C30_SuccessfulLoadDisplaysTree ==
    [][LoadSucceeds => /\ loading' = FALSE
                       /\ error' = NoError
                       /\ attackTreeData' # Null]_vars

=============================================================================
